---- MODULE Spec2Model ----
(***************************************************************************)
(* A model of android/tools.py: the Program invoker (argument list,        *)
(* environment, process launch, wait, result or ProgramFailedError) and    *)
(* the tool adapters that build an argument list and delegate to it.       *)
(*                                                                         *)
(* Python values are modelled as follows.  A str is a TLA+ string, a list  *)
(* a sequence, a dict a function whose domain is the set of its keys.      *)
(* None, True and False are the reserved strings below, which no parameter *)
(* domain of the model contains as an ordinary string.  A byte stream is a *)
(* sequence of one-character strings.                                      *)
(***************************************************************************)
EXTENDS Naturals, Integers, Sequences, FiniteSets, TLC

\* ------------------------------------------------------------- bounds
\* Longest group of fragments handed to a direct extend_args call.
MaxGroup == 2
\* Most optional parameters one adapter call supplies.
MaxSupplied == 1
\* Bytes an OS pipe holds before a writer blocks (scaled down).
PipeCap == 1

\* ------------------------------------------------------ Python values
None == "<None>"
PyTrue == "<True>"
PyFalse == "<False>"

\* bool(v) of a str, bool or None
Truthy(v) == v \notin {None, PyFalse, ""}

\* bool(l) of a list
TruthyList(l) == Len(l) > 0

\* "%s" % v
PercentS(v) ==
    IF v = None THEN "None"
    ELSE IF v = PyTrue THEN "True"
    ELSE IF v = PyFalse THEN "False"
    ELSE v

\* sep.join(s)
RECURSIVE Join(_, _)
Join(sep, s) ==
    IF s = <<>> THEN ""
    ELSE IF Len(s) = 1 THEN s[1]
    ELSE s[1] \o sep \o Join(sep, Tail(s))

\* {}
EmptyDict == [k \in {} |-> ""]

\* d.copy() followed by .update(e)
DictUpdate(d, e) ==
    [k \in DOMAIN d \cup DOMAIN e |-> IF k \in DOMAIN e THEN e[k] ELSE d[k]]

\* All lists over elems of length at most n.
RECURSIVE ListsUpTo(_, _)
ListsUpTo(elems, n) ==
    IF n = 0 THEN {<<>>}
    ELSE LET shorter == ListsUpTo(elems, n - 1)
         IN  shorter \cup {Append(l, e) : l \in shorter, e \in elems}

\* ------------------------------------------------------------- inputs
Platforms == {"linux2", "win32"}
Classes == {"Program", "Aapt", "Aidl", "LlvmRs", "NdkBuild", "NdkClean",
            "JavaC", "Dx", "ApkBuilder", "JarSigner", "ZipAlign"}
StrVals == {"x"}
FlagVals == {PyTrue, PyFalse}
\* The lists of distinct items over two values, in either order.
ListVals == {<<>>, <<"a">>, <<"b">>, <<"a", "b">>, <<"b", "a">>}
\* Lists that also hold None items, for the parameters that accept them.
OptListVals == ListVals \cup {<<"a", None>>, <<None, "b">>}
ExitCodes == {0, 1, 7}
StdoutByte == "o"
StderrByte == "e"
\* What a child may have to write to one stream: up to one byte more than
\* a pipe holds.
RECURSIVE Repeat(_, _)
Repeat(b, n) == IF n = 0 THEN <<>> ELSE <<b>> \o Repeat(b, n - 1)
Outputs(b) == {Repeat(b, n) : n \in 0..(PipeCap + 1)}

VARIABLES
    platform,     \* sys.platform
    os_environ,   \* os.environ
    programs,     \* class name -> the Program instance's fields
    pc,           \* "idle", "extended", "waiting", "returned", "raised"
    call,         \* the adapter call in progress: class, keyword arguments
    invoke,       \* Program.__call__'s parameters: arguments, env, shell
    cmdline_str,  \* Program.__call__'s local cmdline_str
    popen,        \* what subprocess.Popen was given: args, shell, env
    child,        \* the child process: what it still has to write, its state
    process,      \* the Popen object: stdout and stderr pipes, returncode
    result,       \* the value returned to the caller, None before
    error,        \* <<>> or <<e>>, e the ProgramFailedError raised
    ext           \* the last direct extend_args call: inputs and outcome

vars == <<platform, os_environ, programs, pc, call, invoke, cmdline_str,
          popen, child, process, result, error, ext>>

\* --------------------------------------------------------- extend_args
\* extend_args dropping the None items instead of the whole group
extend_args_filtering(args, new, condition) ==
    IF condition THEN args \o SelectSeq(new, LAMBDA x : x # None) ELSE args

\* Program.extend_args; condition is the truth value of the Python object.
extend_args(args, new, condition) ==
    IF ~(\E i \in DOMAIN new : new[i] = None) /\ condition
    THEN args \o new
    ELSE args

\* for item in items: self.extend_args(args, prefix + [item])
RECURSIVE ForExtendArgs(_, _, _)
ForExtendArgs(args, prefix, items) ==
    IF items = <<>> THEN args
    ELSE ForExtendArgs(extend_args(args, prefix \o <<Head(items)>>, TRUE),
                       prefix, Tail(items))

\* the flag once, then all the items
ForExtend_flag_once(args, flag, items) ==
    IF items = <<>> THEN args ELSE (args \o <<flag>>) \o items

\* for item in items: args.extend([flag, item])
RECURSIVE ForExtend(_, _, _)
ForExtend(args, flag, items) ==
    IF items = <<>> THEN args
    ELSE ForExtend(args \o <<flag, Head(items)>>, flag, Tail(items))

\* ------------------------------------------------- keyword arguments
\* The keyword arguments of one adapter call: the required parameters as
\* given, and at most MaxSupplied of the others supplied; an unsupplied
\* scalar is None and an unsupplied list is [].  s holds the scalar
\* parameters and l the list-valued ones.
Kwargs(required, strP, flagP, listP, optListP) ==
    LET sdom(p) == IF p \in flagP THEN FlagVals ELSE StrVals
        ldom(p) == IF p \in optListP THEN OptListVals ELSE ListVals
        scalars == strP \cup flagP
        lists == listP \cup optListP
        svalues(S) == {f \in [S -> StrVals \cup FlagVals] : \A p \in S : f[p] \in sdom(p)}
        lvalues(T) == {g \in [T -> OptListVals] : \A p \in T : g[p] \in ldom(p)}
    IN  UNION {
          UNION {
            {[s |-> required @@ [p \in scalars |-> IF p \in S THEN f[p] ELSE None],
              l |-> [p \in lists |-> IF p \in T THEN g[p] ELSE <<>>]]
               : f \in svalues(S), g \in lvalues(T)}
            : T \in {U \in SUBSET lists :
                        Cardinality(S) + Cardinality(U) <= MaxSupplied}}
          : S \in {U \in SUBSET scalars : Cardinality(U) <= MaxSupplied}}

\* ------------------------------------------------------------ adapters
\* Aapt.__call__: the argument list
AaptArgs(kw) ==
    LET a0 == <<kw.s.command>>
        a1 == extend_args(a0, <<"-m">>, Truthy(kw.s.make_dirs))
        a2 == extend_args(a1, <<"-M", kw.s.manifest>>, TRUE)
        a3 == extend_args(a2, <<"-S", kw.s.resource_dir>>, TRUE)
        a4 == extend_args(a3, <<"-A", kw.s.asset_dir>>, TRUE)
        a5 == extend_args(a4, <<"-c", kw.s.configurations>>, TRUE)
        a6 == IF Truthy(kw.s.overwrite_version_code)
              THEN extend_args(a5, <<"--version-code",
                                     PercentS(kw.s.overwrite_version_code)>>, TRUE)
              ELSE a5
        a7 == extend_args(a6, <<"--version-code", kw.s.overwrite_version_name>>, TRUE)
        a8 == extend_args(a7, <<"--rename-manifest-package",
                                kw.s.rename_manifest_package>>, TRUE)
        a9 == ForExtendArgs(a8, <<"-I">>, kw.l.include)
        a10 == extend_args(a9, <<"-F", kw.s.apk_output>>, TRUE)
        a11 == extend_args(a10, <<"-J", kw.s.r_output>>, TRUE)
        a12 == extend_args(a11, <<"-f">>, Truthy(kw.s.overwrite))
    IN  extend_args(a12, kw.l.extra_args, TRUE)

AaptKwargs ==
    Kwargs([command |-> "package"],
           {"manifest", "resource_dir", "asset_dir", "configurations",
            "overwrite_version_code", "overwrite_version_name",
            "rename_manifest_package", "apk_output", "r_output"},
           {"make_dirs", "overwrite"}, {}, {"include", "extra_args"})

\* Aidl.__call__: the argument list
AidlArgs(kw) ==
    LET a1 == extend_args(<<>>, <<"-p" \o PercentS(kw.s.preprocessed)>>,
                          Truthy(kw.s.preprocessed))
        a2 == extend_args(a1, <<"-I" \o PercentS(kw.s.search_path)>>,
                          Truthy(kw.s.search_path))
        a3 == extend_args(a2, <<"-o" \o PercentS(kw.s.output_folder)>>,
                          Truthy(kw.s.output_folder))
    IN  extend_args(a3, <<kw.s.aidl_file>>, TRUE)

AidlKwargs ==
    Kwargs([aidl_file |-> "I.aidl"],
           {"preprocessed", "search_path", "output_folder"}, {}, {}, {})

\* LlvmRs.__call__: the argument list
LlvmRsArgs(kw) ==
    LET a1 == ForExtendArgs(<<>>, <<"-I">>, kw.l.include_dirs)
        a2 == extend_args(a1, <<"-o", kw.s.resource_dir>>, TRUE)
        a3 == extend_args(a2, <<"-java-reflection-path-base",
                                kw.s.resource_gen_dir>>, TRUE)
    IN  ForExtendArgs(a3, <<>>, kw.l.source_files)

LlvmRsKwargs ==
    Kwargs([resource_dir |-> "res", resource_gen_dir |-> "gen"],
           {}, {}, {}, {"include_dirs", "source_files"})

\* NdkBuild.__call__: the argument list
NdkBuildArgs(kw) == extend_args(<<>>, <<"-C", kw.s.project_path>>, TRUE)

\* NdkClean.__call__: the argument list
NdkCleanArgs(kw) ==
    LET a1 == extend_args(<<>>, <<"clean">>, TRUE)
    IN  extend_args(a1, <<"-C", kw.s.project_path>>, TRUE)

NdkKwargs == Kwargs([project_path |-> "proj"], {}, {}, {}, {})

\* JavaC.__call__: the list's path separator
JavaCPathSep(plat) == ":"

\* JavaC.__call__: the argument list
JavaCArgs(kw, plat) ==
    LET a1 == extend_args(<<>>, <<"-encoding", kw.s.encoding>>, TRUE)
        a2 == extend_args(a1, <<"-target", kw.s.target>>, TRUE)
        a3 == extend_args(a2, <<"-source", kw.s.target>>, TRUE)
        a4 == extend_args(a3, <<"-d", kw.s.destdir>>, TRUE)
        a5 == extend_args(a4, <<"-classpath",
                                Join(JavaCPathSep(plat), kw.l.classpath)>>,
                          TruthyList(kw.l.classpath))
        a6 == extend_args(a5, <<"-bootclasspath", kw.s.bootclasspath>>, TRUE)
        a7 == a6 \o <<IF Truthy(kw.s.debug) THEN "-g" ELSE "-g:none">>
    IN  a7 \o kw.l.files

JavaCKwargs ==
    Kwargs(EmptyDict, {"destdir", "encoding", "target", "bootclasspath"},
           {"debug"}, {"files", "classpath"}, {})

\* Dx.__call__: the argument list
DxArgs(kw) ==
    LET a1 == extend_args(<<"--dex">>, <<"--output=" \o PercentS(kw.s.output)>>, TRUE)
    IN  a1 \o kw.l.files

DxKwargs == Kwargs(EmptyDict, {"output"}, {}, {"files"}, {})

\* ApkBuilder.__call__: the argument list
ApkBuilderArgs(kw) ==
    LET a1 == <<kw.s.outputfile>> \o <<"-u">>
        a2 == extend_args(a1, <<"-f", kw.s.dex>>, TRUE)
        a3 == ForExtend(a2, "-z", kw.l.zips)
        a4 == ForExtend(a3, "-rf", kw.l.source_dirs)
        a5 == ForExtend(a4, "-rj", kw.l.jar_paths)
    IN  ForExtend(a5, "-nf", kw.l.native_dirs)

\* ApkBuilder.__call__: the env handed to Program.__call__
ApkBuilderEnv(self) == [ANDROID_SDK_DIR |-> self.framework.sdk_dir]

ApkBuilderKwargs ==
    Kwargs([outputfile |-> "out.apk"], {"dex"}, {},
           {"zips", "source_dirs", "jar_paths", "native_dirs"}, {})

\* JarSigner.__call__: the argument list
JarSignerArgs(kw) ==
    <<"-keystore", kw.s.keystore>> \o <<"-storepass", kw.s.password>>
        \o <<"-digestalg", "SHA1">> \o <<"-sigalg", "MD5withRSA">>
        \o <<kw.s.jarfile>> \o <<kw.s.alias>>

JarSignerKwargs ==
    Kwargs([jarfile |-> "app.jar", keystore |-> "ks", alias |-> "key",
            password |-> "pw"], {}, {}, {}, {})

\* ZipAlign.__call__: the argument list
ZipAlignArgs(kw) ==
    LET a1 == extend_args(<<>>, <<"-f">>, Truthy(kw.s.force))
    IN  a1 \o <<PercentS(kw.s.align)>> \o <<kw.s.infile>> \o <<kw.s.outfile>>

ZipAlignKwargs ==
    Kwargs([infile |-> "in.apk", outfile |-> "out.apk", align |-> "4"],
           {}, {"force"}, {}, {})

\* ------------------------------------------------------------ Program
\* Program.__init__, once per tool
NewProgram(executable) ==
    [executable |-> executable, framework |-> [sdk_dir |-> "/sdk"]]

\* the shell prefix without the platform test
Cmdline_any_platform(executable, arguments, shell, plat) ==
    LET cmdline == <<executable>> \o arguments
    IN  IF shell THEN <<"/bin/sh">> \o cmdline ELSE cmdline

\* Program.__call__: the argv launched
Cmdline(executable, arguments, shell, plat) ==
    LET cmdline == <<executable>> \o arguments
    IN  IF shell /\ ~(plat = "win32") THEN <<"/bin/sh">> \o cmdline ELSE cmdline

\* the caller's shell request handed on to subprocess.Popen
PopenShell_passed_on(shell, plat) == shell \/ plat = "win32"

\* Program.__call__: the shell argument of subprocess.Popen
PopenShell(shell, plat) == IF plat = "win32" THEN TRUE ELSE FALSE

\* Program.__call__: custom_env
CustomEnv(environ, env) == DictUpdate(environ, env)

\* os.environ updated in place instead of a copy
EnvironAfter_in_place(environ, env) == DictUpdate(environ, env)

\* Program.__call__: os.environ after the call
EnvironAfter(environ, env) == environ

\* ProgramFailedError.__init__ (cmdline is a str here, never a list)
ProgramFailedError(cmdline, returncode, stdout, stderr) ==
    [cmdline |-> cmdline, returncode |-> returncode,
     stdout |-> stdout, stderr |-> stderr]

\* the streams handed over in the order of the parameter names
Failure_unswapped(cmdline, proc) ==
    ProgramFailedError(cmdline, proc.returncode, proc.stdout, proc.stderr)

\* Program.__call__: the failure raised for a nonzero returncode
Failure(cmdline, proc) ==
    ProgramFailedError(cmdline, proc.returncode, proc.stderr, proc.stdout)

\* only exit codes above 1 taken as failures
Failed_above_one(returncode) == returncode > 1

\* Program.__call__: whether the call raises
Failed(returncode) == returncode # 0

NoCall == [cls |-> None, kw |-> [s |-> EmptyDict, l |-> EmptyDict]]
NoInvoke == [arguments |-> <<>>, env |-> EmptyDict, shell |-> FALSE]
NoPopen == [args |-> <<>>, shell |-> FALSE, env |-> EmptyDict]
NoChild == [state |-> "none", status |-> 0, stdout |-> <<>>, stderr |-> <<>>,
            nout |-> 0, nerr |-> 0]
NoProcess == [stdout |-> <<>>, stderr |-> <<>>, returncode |-> 0, waited |-> FALSE]
NoExt == [args |-> <<>>, new |-> <<>>, condition |-> None, out |-> <<>>]

\* The ambient environment the interpreter starts with.
InitEnviron == [PATH |-> "/bin", ANDROID_SDK_DIR |-> "/old"]

\* One instance per tool, constructed once.
InitPrograms == [c \in Classes |-> NewProgram(c)]

Init ==
    /\ platform \in Platforms
    /\ os_environ = InitEnviron
    /\ programs = InitPrograms
    /\ pc = "idle"
    /\ call = NoCall
    /\ invoke = NoInvoke
    /\ cmdline_str = None
    /\ popen = NoPopen
    /\ child = NoChild
    /\ process = NoProcess
    /\ result = None
    /\ error = <<>>
    /\ ext = NoExt

\* Program.__call__ up to process.wait(): the command line, the
\* environment, the launch.  The child's program (what it writes to each
\* stream) is an input of the launch.
Launch(c, kw, arguments, env, shell) ==
    LET self == programs[c]
        cmdline == Cmdline(self.executable, arguments, shell, platform)
    IN  /\ pc = "idle"
        /\ call' = [cls |-> c, kw |-> kw]
        /\ invoke' = [arguments |-> arguments, env |-> env, shell |-> shell]
        /\ cmdline_str' = Join(" ", cmdline)
        /\ popen' = [args |-> cmdline, shell |-> PopenShell(shell, platform),
                     env |-> CustomEnv(os_environ, env)]
        /\ os_environ' = EnvironAfter(os_environ, env)
        /\ \E out \in Outputs(StdoutByte), err \in Outputs(StderrByte) :
              child' = [state |-> "running", status |-> 0,
                        stdout |-> out, stderr |-> err, nout |-> 0, nerr |-> 0]
        /\ process' = NoProcess
        /\ pc' = "waiting"
        /\ result' = None
        /\ error' = <<>>
        /\ ext' = NoExt
        /\ UNCHANGED <<platform, programs>>

\* A direct call of Program.__call__
ProgramCall ==
    \E arguments \in ListVals, shell \in BOOLEAN,
       env \in {EmptyDict, [PATH |-> "/opt"], [LANG |-> "C"]} :
        Launch("Program", [s |-> EmptyDict, l |-> EmptyDict], arguments, env, shell)

Aapt == \E kw \in AaptKwargs : Launch("Aapt", kw, AaptArgs(kw), EmptyDict, FALSE)

Aidl == \E kw \in AidlKwargs : Launch("Aidl", kw, AidlArgs(kw), EmptyDict, FALSE)

LlvmRs == \E kw \in LlvmRsKwargs : Launch("LlvmRs", kw, LlvmRsArgs(kw), EmptyDict, FALSE)

NdkBuild == \E kw \in NdkKwargs : Launch("NdkBuild", kw, NdkBuildArgs(kw), EmptyDict, FALSE)

NdkClean == \E kw \in NdkKwargs : Launch("NdkClean", kw, NdkCleanArgs(kw), EmptyDict, FALSE)

JavaC ==
    \E kw \in JavaCKwargs : Launch("JavaC", kw, JavaCArgs(kw, platform), EmptyDict, FALSE)

Dx == \E kw \in DxKwargs : Launch("Dx", kw, DxArgs(kw), EmptyDict, FALSE)

ApkBuilder ==
    \E kw \in ApkBuilderKwargs :
        Launch("ApkBuilder", kw, ApkBuilderArgs(kw),
               ApkBuilderEnv(programs["ApkBuilder"]), TRUE)

JarSigner ==
    \E kw \in JarSignerKwargs : Launch("JarSigner", kw, JarSignerArgs(kw), EmptyDict, FALSE)

ZipAlign ==
    \E kw \in ZipAlignKwargs : Launch("ZipAlign", kw, ZipAlignArgs(kw), EmptyDict, FALSE)

\* -------------------------------------------------------- child process
\* The child writes its next byte to its standard output, a pipe nobody
\* reads before the child has exited; the write blocks while the pipe is
\* full.
ChildWriteStdout ==
    /\ pc = "waiting"
    /\ child.state = "running"
    /\ child.nout < Len(child.stdout)
    /\ Len(process.stdout) < PipeCap
    /\ process' = [process EXCEPT !.stdout = Append(@, child.stdout[child.nout + 1])]
    /\ child' = [child EXCEPT !.nout = @ + 1]
    /\ UNCHANGED <<platform, os_environ, programs, pc, call, invoke,
                   cmdline_str, popen, result, error, ext>>

ChildWriteStderr ==
    /\ pc = "waiting"
    /\ child.state = "running"
    /\ child.nerr < Len(child.stderr)
    /\ Len(process.stderr) < PipeCap
    /\ process' = [process EXCEPT !.stderr = Append(@, child.stderr[child.nerr + 1])]
    /\ child' = [child EXCEPT !.nerr = @ + 1]
    /\ UNCHANGED <<platform, os_environ, programs, pc, call, invoke,
                   cmdline_str, popen, result, error, ext>>

\* The child has written everything and exits with some status.
ChildExit ==
    /\ pc = "waiting"
    /\ child.state = "running"
    /\ child.nout = Len(child.stdout)
    /\ child.nerr = Len(child.stderr)
    /\ \E status \in ExitCodes :
          child' = [child EXCEPT !.state = "exited", !.status = status]
    /\ UNCHANGED <<platform, os_environ, programs, pc, call, invoke,
                   cmdline_str, popen, process, result, error, ext>>

\* Program.__call__ from process.wait() on: wait() returns once the child
\* has exited; then the pipes are read and the failure raised, or the
\* command line returned.
Wait ==
    /\ pc = "waiting"
    /\ child.state = "exited"
    /\ LET waited == [process EXCEPT !.returncode = child.status, !.waited = TRUE]
       IN  IF Failed(waited.returncode)
           THEN /\ error' = <<Failure(cmdline_str, waited)>>
                /\ process' = [waited EXCEPT !.stdout = <<>>, !.stderr = <<>>]
                /\ result' = None
                /\ pc' = "raised"
           ELSE /\ error' = <<>>
                /\ process' = waited
                /\ result' = cmdline_str
                /\ pc' = "returned"
    /\ UNCHANGED <<platform, os_environ, programs, call, invoke,
                   cmdline_str, popen, child, ext>>

\* A direct call of extend_args(args, new, condition)
ExtendArgs ==
    /\ pc = "idle"
    /\ \E args \in ListsUpTo({"x"}, 1), new \in ListsUpTo({"a", "b", None}, MaxGroup),
          condition \in {None, PyTrue, PyFalse, "", "c"} :
          ext' = [args |-> args, new |-> new, condition |-> condition,
                  out |-> extend_args(args, new, Truthy(condition))]
    /\ pc' = "extended"
    /\ UNCHANGED <<platform, os_environ, programs, call, invoke, cmdline_str,
                   popen, child, process, result, error>>

\* The call is over: its result or failure has gone to the caller, and the
\* argument list and the other locals of the call are dropped.  The next
\* call starts from here.
CallOver ==
    /\ pc \in {"returned", "raised", "extended"}
    /\ pc' = "idle"
    /\ call' = NoCall
    /\ invoke' = NoInvoke
    /\ cmdline_str' = None
    /\ popen' = NoPopen
    /\ child' = NoChild
    /\ process' = NoProcess
    /\ result' = None
    /\ error' = <<>>
    /\ ext' = NoExt
    /\ UNCHANGED <<platform, os_environ, programs>>

Next ==
    \/ ProgramCall
    \/ Aapt
    \/ Aidl
    \/ LlvmRs
    \/ NdkBuild
    \/ NdkClean
    \/ JavaC
    \/ Dx
    \/ ApkBuilder
    \/ JarSigner
    \/ ZipAlign
    \/ ChildWriteStdout
    \/ ChildWriteStderr
    \/ ChildExit
    \/ Wait
    \/ ExtendArgs
    \/ CallOver

Spec == Init /\ [][Next]_vars

\* -------------------------------------------------------------- claims
\* A call of Program.__call__ has launched its child.
Launched == pc \in {"waiting", "returned", "raised"}

\* The call has come back to its caller.
Completed == pc \in {"returned", "raised"}

\* The executable followed by the argument fragments, joined by spaces.
PlainCommandLine == Join(" ", <<programs[call.cls].executable>> \o invoke.arguments)

\* C1: a completed call has returned the command-line string exactly when
\* the child's exit code is 0 and has raised ProgramFailedError exactly when
\* it is not 0; the failure carries that exit code and the string a
\* successful call returns; no failure exists for exit code 0.
C1_ExitCodeDecidesOutcome ==
    /\ pc = "returned" =>
          /\ child.status = 0
          /\ result = Join(" ", popen.args)
          /\ error = <<>>
    /\ pc = "raised" =>
          /\ child.status # 0
          /\ result = None
          /\ Len(error) = 1
          /\ error[1].returncode = child.status
          /\ error[1].cmdline = Join(" ", popen.args)
    /\ error # <<>> => pc = "raised" /\ error[1].returncode # 0

C1_Witness ==
    /\ pc = "raised"
    /\ child.status = 7
    /\ error[1].returncode = 7
    /\ Len(invoke.arguments) > 0

\* C2 as stated: whenever a call returns, on every platform and in every
\* execution mode, the returned string is the executable followed by the
\* argument fragments joined by single spaces, with nothing before the
\* executable.
C2_Original == pc = "returned" => result = PlainCommandLine

\* C2 amended: the returned string is the executable followed by the
\* argument fragments joined by single spaces, preceded by "/bin/sh " when
\* the shell wrapper is requested on a non-Windows platform (there it is
\* the command line launched, as for every ApkBuilder call).
C2_ReturnedCommandLine ==
    pc = "returned" =>
        result = (IF invoke.shell /\ platform # "win32" THEN "/bin/sh " ELSE "")
                    \o PlainCommandLine

C2_Witness ==
    /\ pc = "returned"
    /\ platform = "linux2"
    /\ call.cls = "ApkBuilder"
    /\ call.kw.l.zips = <<"a", "b">>
    /\ result = "/bin/sh ApkBuilder out.apk -u -z a -z b"

\* C3: extend_args appends the whole group new, in order, when no item of
\* it is None and the condition is truthy, and otherwise leaves args exactly
\* as it was; the items already in args never change.
C3_ExtendArgsAtomic ==
    pc = "extended" =>
        LET absent == \E i \in 1..Len(ext.new) : ext.new[i] = None
            n == Len(ext.args)
        IN  /\ Len(ext.out) >= n
            /\ SubSeq(ext.out, 1, n) = ext.args
            /\ IF ~absent /\ Truthy(ext.condition)
               THEN /\ Len(ext.out) = n + Len(ext.new)
                    /\ SubSeq(ext.out, n + 1, Len(ext.out)) = ext.new
               ELSE ext.out = ext.args

C3_Witness ==
    /\ pc = "extended"
    /\ ext.args = <<"x">>
    /\ ext.new = <<"a", None>>
    /\ ext.condition = PyTrue
    /\ ext.out = <<"x">>

\* The parameters of each adapter that a caller must supply.
RequiredLists(c) ==
    CASE c = "LlvmRs" -> {"include_dirs", "source_files"}
      [] c \in {"JavaC", "Dx"} -> {"files"}
      [] OTHER -> {}
RequiredScalars(c) ==
    CASE c = "Aapt" -> {"command"}
      [] c = "Aidl" -> {"aidl_file"}
      [] c = "LlvmRs" -> {"resource_dir", "resource_gen_dir"}
      [] c \in {"NdkBuild", "NdkClean"} -> {"project_path"}
      [] c = "ApkBuilder" -> {"outputfile"}
      [] c = "JarSigner" -> {"jarfile", "keystore", "alias", "password"}
      [] c = "ZipAlign" -> {"infile", "outfile", "align"}
      [] OTHER -> {}

\* No optional parameter of the call is supplied.
NoneSupplied ==
    /\ \A p \in DOMAIN call.kw.s \ RequiredScalars(call.cls) : call.kw.s[p] = None
    /\ \A p \in DOMAIN call.kw.l \ RequiredLists(call.cls) : call.kw.l[p] = <<>>

\* flag, value pairs, one per item
RECURSIVE Pairs(_, _)
Pairs(flag, items) ==
    IF items = <<>> THEN <<>> ELSE <<flag, Head(items)>> \o Pairs(flag, Tail(items))

NoNoneIn(items) == \A i \in 1..Len(items) : items[i] # None

\* The unconditional tokens and required positional values of each adapter,
\* as its documentation gives them.
FixedArgs(c, kw) ==
    CASE c = "Aapt" -> <<kw.s.command>>
      [] c = "Aidl" -> <<kw.s.aidl_file>>
      [] c = "LlvmRs" -> Pairs("-I", kw.l.include_dirs)
                            \o <<"-o", kw.s.resource_dir,
                                 "-java-reflection-path-base", kw.s.resource_gen_dir>>
                            \o kw.l.source_files
      [] c = "NdkBuild" -> <<"-C", kw.s.project_path>>
      [] c = "NdkClean" -> <<"clean", "-C", kw.s.project_path>>
      [] c = "JavaC" -> <<"-g:none">> \o kw.l.files
      [] c = "Dx" -> <<"--dex">> \o kw.l.files
      [] c = "ApkBuilder" -> <<kw.s.outputfile, "-u">>
      [] c = "JarSigner" -> <<"-keystore", kw.s.keystore, "-storepass", kw.s.password,
                              "-digestalg", "SHA1", "-sigalg", "MD5withRSA",
                              kw.s.jarfile, kw.s.alias>>
      [] c = "ZipAlign" -> <<kw.s.align, kw.s.infile, kw.s.outfile>>

\* C4: an adapter called with every optional parameter unsupplied hands
\* Program.__call__ exactly its unconditional tokens and required positional
\* values, in order: Dx without an output gives "--dex" and the files, JavaC
\* with only files gives "-g:none" and the files.
C4_NoOptionalNoFragment ==
    (Launched /\ call.cls # "Program" /\ NoneSupplied
        /\ \A p \in DOMAIN call.kw.l : NoNoneIn(call.kw.l[p]))
    => invoke.arguments = FixedArgs(call.cls, call.kw)

\* C4 for every adapter but Dx (not a claim; it locates the divergence).
C4_AllButDx == call.cls # "Dx" => C4_NoOptionalNoFragment

\* C5: the failure's stream fields are swapped relative to their names: its
\* stdout field holds what the child wrote to standard error and its stderr
\* field what the child wrote to standard output.
C5_StreamsSwapped ==
    pc = "raised" =>
        /\ error[1].stdout = SubSeq(child.stderr, 1, child.nerr)
        /\ error[1].stderr = SubSeq(child.stdout, 1, child.nout)

C5_Witness ==
    /\ pc = "raised"
    /\ error[1].returncode = 7
    /\ child.stderr = <<StderrByte>>
    /\ child.stdout = <<StdoutByte>>
    /\ error[1].stdout = <<StderrByte>>
    /\ error[1].stderr = <<StdoutByte>>

\* C6: the launch mode depends on the platform and the shell request alone.
\* Off Windows with the wrapper requested the argv is "/bin/sh", the
\* executable and the fragments, without it the executable and the
\* fragments, both with Popen's shell off; on Windows the argv is the
\* executable and the fragments and Popen's shell is on, requested or not.
\* Of the adapters only ApkBuilder requests the wrapper.
C6_LaunchMode ==
    Launched =>
        LET plain == <<programs[call.cls].executable>> \o invoke.arguments
        IN  /\ (platform # "win32" /\ invoke.shell) =>
                  popen.args = <<"/bin/sh">> \o plain /\ popen.shell = FALSE
            /\ (platform # "win32" /\ ~invoke.shell) =>
                  popen.args = plain /\ popen.shell = FALSE
            /\ platform = "win32" => popen.args = plain /\ popen.shell = TRUE
            /\ call.cls # "Program" => (invoke.shell <=> call.cls = "ApkBuilder")

C6_Witness ==
    /\ pc = "waiting"
    /\ platform = "linux2"
    /\ call.cls = "ApkBuilder"
    /\ popen.args = <<"/bin/sh", "ApkBuilder", "out.apk", "-u", "-f", "x">>
    /\ popen.shell = FALSE

\* Adapter dispatch: the argument list class c builds from kw.
ArgsOf(c, kw, plat) ==
    CASE c = "Aapt" -> AaptArgs(kw)
      [] c = "Aidl" -> AidlArgs(kw)
      [] c = "LlvmRs" -> LlvmRsArgs(kw)
      [] c = "NdkBuild" -> NdkBuildArgs(kw)
      [] c = "NdkClean" -> NdkCleanArgs(kw)
      [] c = "JavaC" -> JavaCArgs(kw, plat)
      [] c = "Dx" -> DxArgs(kw)
      [] c = "ApkBuilder" -> ApkBuilderArgs(kw)
      [] c = "JarSigner" -> JarSignerArgs(kw)
      [] c = "ZipAlign" -> ZipAlignArgs(kw)

\* The repeated-parameter fields: class, parameter, flag.
RepeatedFields ==
    {<<"Aapt", "include", "-I">>, <<"LlvmRs", "include_dirs", "-I">>,
     <<"ApkBuilder", "zips", "-z">>, <<"ApkBuilder", "source_dirs", "-rf">>,
     <<"ApkBuilder", "jar_paths", "-rj">>, <<"ApkBuilder", "native_dirs", "-nf">>}

\* C7: a repeated-parameter field of n supplied (non-None) items contributes
\* exactly the 2n consecutive fragments flag, item, ..., in input order: the
\* argument list is the one built with the field empty, with those
\* fragments inserted at one place; an empty list contributes no flag.
C7_RepeatedFields ==
    Launched =>
        \A r \in RepeatedFields :
            (call.cls = r[1] /\ NoNoneIn(call.kw.l[r[2]])) =>
                LET items == call.kw.l[r[2]]
                    without == ArgsOf(call.cls,
                                      [call.kw EXCEPT !.l[r[2]] = <<>>], platform)
                    args == invoke.arguments
                IN  /\ Len(args) = Len(without) + 2 * Len(items)
                    /\ \E i \in 0..Len(without) :
                          args = SubSeq(without, 1, i) \o Pairs(r[3], items)
                                    \o SubSeq(without, i + 1, Len(without))
                    /\ items = <<>> => \A i \in 1..Len(args) : args[i] # r[3]

C7_Witness ==
    /\ pc = "waiting"
    /\ call.cls = "ApkBuilder"
    /\ call.kw.l.jar_paths = <<"b", "a">>
    /\ invoke.arguments = <<"out.apk", "-u", "-rj", "b", "-rj", "a">>

\* C8: JavaC renders a non-empty classpath as "-classpath" and one fragment,
\* the items joined by the platform's path separator (":" on POSIX, ";" on
\* Windows); an empty classpath contributes neither.
C8_ClasspathPlatformSeparator ==
    (Launched /\ call.cls = "JavaC") =>
        LET pathsep == IF platform = "win32" THEN ";" ELSE ":"
            classpath == call.kw.l.classpath
            args == invoke.arguments
            at == {i \in 1..Len(args) : args[i] = "-classpath"}
        IN  IF classpath = <<>>
            THEN at = {}
            ELSE /\ Cardinality(at) = 1
                 /\ \A i \in at : i < Len(args) /\ args[i + 1] = Join(pathsep, classpath)

\* C8 on POSIX platforms alone (not a claim; it locates the divergence).
C8_OnPosix == platform # "win32" => C8_ClasspathPlatformSeparator

\* C9: a call whose child would exit once its output is drained completes,
\* however much the child writes: while the caller waits, the child or the
\* caller can always take a step; and a failure holds everything the child
\* had to write to each stream.
C9_CallCompletes ==
    /\ pc = "waiting" =>
          ENABLED (ChildWriteStdout \/ ChildWriteStderr \/ ChildExit \/ Wait)
    /\ pc = "raised" =>
          {error[1].stdout, error[1].stderr} = {child.stdout, child.stderr}

\* C10: the environment handed to the child is the ambient environment with
\* the overlay on top (the overlay's value for its keys, the ambient value
\* for the rest); the ambient environment and the instances' executable and
\* framework fields are what they were at the start, whatever calls have
\* been made, so an earlier call's overlay reaches no later call.
C10_EnvironmentOverlay ==
    /\ os_environ = InitEnviron
    /\ programs = InitPrograms
    /\ Launched =>
          /\ DOMAIN popen.env = DOMAIN InitEnviron \cup DOMAIN invoke.env
          /\ \A k \in DOMAIN popen.env :
                popen.env[k] = IF k \in DOMAIN invoke.env
                               THEN invoke.env[k] ELSE InitEnviron[k]

C10_Witness ==
    /\ Completed
    /\ call.cls = "ApkBuilder"
    /\ popen.env = [PATH |-> "/bin", ANDROID_SDK_DIR |-> "/sdk"]
    /\ os_environ = [PATH |-> "/bin", ANDROID_SDK_DIR |-> "/old"]

====
